---- MODULE Spec2Model ----
(***************************************************************************)
(* A model of the Megatron-LM server client of lm_eval                     *)
(* (src/lm_eval/models/megatronlm.py): the scoring call                    *)
(* _loglikelihood_tokens, the generation call greedy_until, the retry      *)
(* wrapper megatron_completion around megatron_query, and the pure         *)
(* function get_result.                                                    *)
(*                                                                         *)
(* Token ids and characters are small integers.  Log-probabilities are     *)
(* integers (a fixed-point scale), so that sums are exact.  A Python list  *)
(* is a sequence; Python's 0-based indices are translated where used.      *)
(***************************************************************************)
EXTENDS Integers, Sequences, FiniteSets, TLC

\* ------------------------------------------------------------------ bounds
\* the longest request list given to one scoring call
MaxReqs == 3
\* the longest request list given to one generation call
MaxUntilReqs == 3
\* the longest request list whose chunking is checked by itself
MaxRun == 4
\* the longest context and the longest continuation whose truncation is
\* checked by itself
MaxCtx == 3
MaxCont == 3
\* the longest input of get_result checked by itself
MaxLogprobs == 3
\* the longest request list of the calls whose retries are checked for progress
MaxLiveReqs == 2
\* the longest request list given to one loglikelihood call
MaxLoglikReqs == 2
\* the number of failed megatron_query calls one megatron_completion call sees
MaxFail == 2

\* the longest generated text whose decoding is checked by itself
MaxText == 4
\* the longest list of stop sequences of that check
MaxTerms == 2

\* ---------------------------------------------------------- program constants
\* MegatronServerLM.max_gen_toks
max_gen_toks == 256
\* megatron_completion: backoff_time = 3
BackoffStart == 3
\* megatron_completion: backoff_time *= 1.5, as the fraction 3/2
GrowthNum == 3
GrowthDen == 2
\* the value None of an absent log-probability (get_result's docstring:
\* [[None, -1.2, -4.5, -5.0]]); every log-probability is <= 0
None == 1
\* the value None of an absent cache key; a present cache key is a request,
\* the pair (context, continuation)
NoKey == <<>>

\* ------------------------------------------------------------ Python helpers
Max(a, b) == IF a >= b THEN a ELSE b
Min(a, b) == IF a <= b THEN a ELSE b

\* s[i:] for a Python list s and an integer i of either sign
PySliceStart(s, i) == IF i >= 0 THEN Min(i, Len(s)) ELSE Max(Len(s) + i, 0)
PySliceFrom(s, i) == SubSeq(s, PySliceStart(s, i) + 1, Len(s))

\* s[-k:] : the k is negated first, so k = 0 gives the whole list
PyLast(s, k) == PySliceFrom(s, 0 - k)

\* s[i] is defined for -len(s) <= i < len(s); otherwise IndexError
PyIndexOk(s, i) == (0 - Len(s)) <= i /\ i < Len(s)
PyIndex(s, i) == IF i >= 0 THEN s[i + 1] ELSE s[Len(s) + i + 1]

RECURSIVE SumSeq(_)
SumSeq(s) == IF s = <<>> THEN 0 ELSE Head(s) + SumSeq(Tail(s))

\* Python's order on tuples and on strings: lexicographic, a proper prefix first
RECURSIVE SeqLess(_, _)
SeqLess(a, b) ==
    IF a = <<>> THEN b # <<>>
    ELSE IF b = <<>> THEN FALSE
    ELSE IF Head(a) < Head(b) THEN TRUE
    ELSE IF Head(a) > Head(b) THEN FALSE
    ELSE SeqLess(Tail(a), Tail(b))

\* the order on the collation keys, which are pairs (int, sequence)
KeyLess(k1, k2) == k1[1] < k2[1] \/ (k1[1] = k2[1] /\ SeqLess(k1[2], k2[2]))

IsPrefix(p, t) == Len(p) <= Len(t) /\ SubSeq(t, 1, Len(p)) = p

\* str.removeprefix
RemovePrefix(t, p) == IF IsPrefix(p, t) THEN SubSeq(t, Len(p) + 1, Len(t)) ELSE t

\* s.split(term)[0] for a non-empty term: s up to the first occurrence of term
RECURSIVE SplitFirst(_, _)
SplitFirst(s, term) ==
    IF Len(s) < Len(term) THEN s
    ELSE IF IsPrefix(term, s) THEN <<>>
    ELSE <<Head(s)>> \o SplitFirst(Tail(s), term)

\* ------------------------------------------------------------- the tokenizer
\* The server's tokenizer: characters are 1 and 2, and the pair 1 2 is merged
\* into the token 3, so that a text and its token list differ in length.
RECURSIVE tok_encode(_)
tok_encode(string) ==
    IF string = <<>> THEN <<>>
    ELSE IF Len(string) >= 2 /\ string[1] = 1 /\ string[2] = 2
         THEN <<3>> \o tok_encode(SubSeq(string, 3, Len(string)))
    ELSE <<Head(string)>> \o tok_encode(Tail(string))

RECURSIVE tok_decode(_)
tok_decode(tokens) ==
    IF tokens = <<>> THEN <<>>
    ELSE (IF Head(tokens) = 3 THEN <<1, 2>> ELSE <<Head(tokens)>>)
         \o tok_decode(Tail(tokens))

\* ------------------------------------------------------------------- get_result
\* the 0-based indices of logprobs[first_continuation_logprob_index:]
continuation_logprob_indices(logprobs, ctxlen) ==
    LET first_continuation_logprob_index == ctxlen - 1
    IN  PySliceStart(logprobs, first_continuation_logprob_index) .. (Len(logprobs) - 1)

\* range(ctxlen, len(is_max_logprobs))
is_greedy_indices(is_max_logprobs, ctxlen) == ctxlen .. (Len(is_max_logprobs) - 1)

\* the result is [raised, logprob, is_greedy]; raised is the TypeError of
\* sum() over an absent entry or the IndexError of is_max_logprobs[i]
get_result(logprobs, is_max_logprobs, ctxlen) ==
    LET first_continuation_logprob_index == ctxlen - 1
        continuation_logprobs == PySliceFrom(logprobs, first_continuation_logprob_index)
        range == is_greedy_indices(is_max_logprobs, ctxlen)
        indexError == \E i \in range : ~PyIndexOk(is_max_logprobs, i)
        typeError == \E j \in 1..Len(continuation_logprobs) : continuation_logprobs[j] = None
    IN  IF indexError \/ typeError
        THEN [raised |-> TRUE, logprob |-> 0, is_greedy |-> FALSE]
        ELSE [raised |-> FALSE,
              logprob |-> SumSeq(continuation_logprobs),
              is_greedy |-> \A i \in range : PyIndex(is_max_logprobs, i)]

\* ------------------------------------------------------ Reorderer and chunks
\* lm_eval.utils.Reorderer: the elements sorted by key, stable, and the
\* results put back at the original positions.  The sorted order is kept as
\* the sequence of original indices.
RECURSIVE InsertByKey(_, _, _)
InsertByKey(p, i, keys) ==
    IF p = <<>> THEN <<i>>
    ELSE IF KeyLess(keys[i], keys[Head(p)]) THEN <<i>> \o p
    ELSE <<Head(p)>> \o InsertByKey(Tail(p), i, keys)

RECURSIVE SortedIndices(_, _)
SortedIndices(n, keys) ==
    IF n = 0 THEN <<>> ELSE InsertByKey(SortedIndices(n - 1, keys), n, keys)

Reorderer(keys) == SortedIndices(Len(keys), keys)

get_reordered(arr, order) == [i \in 1..Len(order) |-> arr[order[i]]]

\* results aligned with the reordered sequence, back in the original order
get_original(order, newarr) ==
    [j \in 1..Len(order) |->
        newarr[CHOOSE i \in 1..Len(order) : order[i] = j]]

\* lm_eval.utils.chunks: groups of n contiguous items, the last one shorter
RECURSIVE chunks(_, _)
chunks(xs, n) ==
    IF xs = <<>> THEN <<>>
    ELSE IF Len(xs) <= n THEN <<xs>>
    ELSE <<SubSeq(xs, 1, n)>> \o chunks(SubSeq(xs, n + 1, Len(xs)), n)

\* ------------------------------------------------------------------ the state
VARIABLES
    method,        \* the evaluation call: "loglikelihood_tokens" or "greedy_until"
    requests,      \* its argument
    batch_size,    \* self._batch_size
    max_length,    \* self._max_length, set by __init__
    pc,            \* the position of the call
    re_ord,        \* the Reorderer: the original indices in sorted order
    chunk_list,    \* list(chunks(...)) or list(sameuntil_chunks(...))
    ci,            \* the index of the chunk of the running loop iteration
    inps,          \* the prompts of that chunk
    ctxlens,       \* the context lengths of that chunk (scoring)
    kwargs,        \* the arguments of the running megatron_completion call
    attempts,      \* the arguments of each megatron_query call made by it
    outcome,       \* how the last megatron_query call ended
    backoff_time,  \* megatron_completion's local, the fraction <<num, den>>
    sleeps,        \* the intervals megatron_completion has slept
    failures,      \* the megatron_query calls of it that have failed
    response,      \* the value megatron_completion returned
    di,            \* the index of the next item to decode in the chunk
    res,           \* the results, in dispatch order
    cache,         \* the calls of cache_hook.add_partial, in order
    ret,           \* the value returned to the caller
    probe,         \* the argument and the result of a pure function under check
    tokenized      \* the prompt lists sent by tokenizer_query, in order

vars == <<method, requests, batch_size, max_length, pc, re_ord, chunk_list, ci,
          inps, ctxlens, kwargs, attempts, outcome, backoff_time, sleeps,
          failures, response, di, res, cache, ret, probe, tokenized>>

\* ------------------------------------------------------------------ the server
\* The completion endpoint is deterministic at temperature 0: its answer is a
\* function of the prompt.  It returns one entry per prompt, and per prompt one
\* log-probability and one argmax flag per token.
SrvLogprobs(inp) == [i \in 1..Len(inp) |-> 0 - (inp[i] + i)]
SrvIsMax(inp) == [i \in 1..Len(inp) |-> (inp[i] + i) % 2 = 1]

Reverse(s) == [i \in 1..Len(s) |-> s[Len(s) + 1 - i]]

\* the echoed prompt followed by the generated text
SrvText(inp) == tok_decode(inp) \o Reverse(tok_decode(inp)) \o <<2, 1>>

SrvResponse(kw) ==
    [logprobs |-> [j \in 1..Len(kw.prompts) |-> SrvLogprobs(kw.prompts[j])],
     is_max_logprobs |-> [j \in 1..Len(kw.prompts) |-> SrvIsMax(kw.prompts[j])],
     text |-> [j \in 1..Len(kw.prompts) |-> SrvText(kw.prompts[j])]]

\* ------------------------------------------------------ _loglikelihood_tokens
\* _collate of _loglikelihood_tokens
collate_tokens(x) ==
    LET toks == x.context_enc \o x.continuation_enc
    IN  <<0 - Len(toks), toks>>

\* inp = (context_enc + continuation_enc)[-(self.max_length + 1):]
item_inp(x, maxlen) == PyLast(x.context_enc \o x.continuation_enc, maxlen + 1)

\* ctxlen = len(context_enc) - max(0, len(context_enc) + len(continuation_enc)
\*                                    - (self.max_length + 1))
item_ctxlen(x, maxlen) ==
    Len(x.context_enc)
    - Max(0, Len(x.context_enc) + Len(x.continuation_enc) - (maxlen + 1))

\* res.append(answer) and res.append(s)
res_append_first(r, answer) == <<answer>> \o r
res_append(r, answer) == Append(r, answer)

\* the Result of a scoring item, as the pair appended to res
score_answer(r) == <<r.logprob, r.is_greedy>>

\* partial caching of a scoring item
add_partial_unguarded(log, x, answer) ==
    Append(log, [attr |-> "loglikelihood", key |-> x.cache_key, value |-> answer])
add_partial_tokens(log, x, answer) ==
    IF x.cache_key # NoKey
    THEN Append(log, [attr |-> "loglikelihood", key |-> x.cache_key, value |-> answer])
    ELSE log

\* --------------------------------------------------------------- greedy_until
\* _collate of greedy_until
collate_until(x) == <<Len(tok_encode(x.context)), x.context>>

\* the generator sameuntil_chunks, run to its end
RECURSIVE sameuntil_loop(_, _, _, _, _)
sameuntil_loop(xs, size, ret_, lastuntil, out) ==
    IF xs = <<>>
    THEN IF ret_ # <<>>
         THEN Append(out, [items |-> ret_, request_args |-> lastuntil])
         ELSE out
    ELSE LET x == Head(xs)
         IN  IF Len(ret_) >= size \/ x.request_args # lastuntil
             THEN sameuntil_loop(Tail(xs), size, <<x>>, x.request_args,
                                 Append(out, [items |-> ret_, request_args |-> lastuntil]))
             ELSE sameuntil_loop(Tail(xs), size, Append(ret_, x), lastuntil, out)

sameuntil_by_size(xs, size) ==
    LET plain == chunks(xs, size)
    IN  [k \in 1..Len(plain) |->
            [items |-> plain[k], request_args |-> plain[k][1].request_args]]
sameuntil_one_more(xs, size) ==
    sameuntil_loop(xs, size + 1, <<>>, xs[1].request_args, <<>>)
sameuntil_chunks(xs, size) == sameuntil_loop(xs, size, <<>>, xs[1].request_args, <<>>)

\* inp = context_enc[-(self.max_length - self.max_gen_toks):]
until_inp(x, maxlen) == PyLast(tok_encode(x.context), maxlen - max_gen_toks)

\* for term in until: s = s.split(term)[0]
RECURSIVE cut_at_terms(_, _)
cut_at_terms(s, until) ==
    IF until = <<>> THEN s
    ELSE cut_at_terms(SplitFirst(s, Head(until)), Tail(until))

\* the Result of a generation item
until_answer(text, x, until) == cut_at_terms(RemovePrefix(text, x.context), until)

\* partial caching of a generation item
add_partial_until(log, x, until, s) ==
    Append(log, [attr |-> "greedy_until", key |-> <<x.context, until>>, value |-> s])

\* --------------------------------------------------------- megatron_completion
\* backoff_time *= 1.5
next_backoff_doubled(b) == <<b[1] * 2, b[2]>>
next_backoff(b) == <<b[1] * GrowthNum, b[2] * GrowthDen>>

\* how a megatron_query call can fail: a status other than 200, an error of
\* requests.put, a JSON body that is no dict; each raises an Exception
Failures == {"status", "connection", "not_dict"}

\* what the except clause of megatron_completion does with a failure
caught_never(kind) == FALSE
caught(kind) == kind \in Failures

\* ------------------------------------------------------------- megatron_query
\* eod_token_id of the server's metadata, which no encoding yields
eot_token_id == 0

\* the request body of megatron_query; an argument that may be None is a
\* sequence of no or one element, temperature is in tenths
megatron_query_data_caller_top_k(kw) ==
    LET data == [prompts |-> kw.prompts,
                 tokens_to_generate |-> kw.max_tokens,
                 logprobs |-> kw.logprobs > 0,
                 stop_token |-> IF kw.stop_token # <<>> THEN kw.stop_token[1]
                                ELSE eot_token_id]
    IN  IF kw.temperature = 0
        THEN data @@ [top_k |-> IF kw.top_k # <<>> THEN kw.top_k[1] ELSE 1]
        ELSE IF kw.top_k # <<>>
        THEN data @@ [temperature |-> kw.temperature, top_k |-> kw.top_k[1]]
        ELSE data @@ [temperature |-> kw.temperature]
megatron_query_data(kw) ==
    LET data == [prompts |-> kw.prompts,
                 tokens_to_generate |-> kw.max_tokens,
                 logprobs |-> kw.logprobs > 0,
                 stop_token |-> IF kw.stop_token # <<>> THEN kw.stop_token[1]
                                ELSE eot_token_id]
    IN  IF kw.temperature = 0
        THEN data @@ [top_k |-> 1]
        ELSE IF kw.top_k # <<>>
        THEN data @@ [temperature |-> kw.temperature, top_k |-> kw.top_k[1]]
        ELSE data @@ [temperature |-> kw.temperature]

\* --------------------------------------------------------------- loglikelihood
\* if len(context_enc) == 0: context_enc = [self.eot_token_id]
context_or_eot_always(context_enc) == <<eot_token_id>>
context_or_eot(context_enc) ==
    IF Len(context_enc) = 0 THEN <<eot_token_id>> ELSE context_enc

\* new_reqs of loglikelihood: a request is a pair of a context and a continuation
new_reqs(reqs) ==
    [i \in 1..Len(reqs) |->
        [cache_key |-> reqs[i],
         context_enc |-> context_or_eot(tok_encode(reqs[i][1])),
         continuation_enc |-> tok_encode(reqs[i][2])]]

\* the two tok_encode_batch calls of loglikelihood
batch_prompts(reqs) ==
    <<[i \in 1..Len(reqs) |-> reqs[i][1]], [i \in 1..Len(reqs) |-> reqs[i][2]]>>

\* the tok_encode calls of a loop iteration of greedy_until: every context, then
\* the first stop sequence
chunk_prompts(m, chunk) ==
    IF m = "greedy_until"
    THEN [j \in 1..Len(chunk.items) |-> <<chunk.items[j].context>>]
         \o (IF chunk.request_args.until # <<>>
             THEN << <<chunk.request_args.until[1]>> >>
             ELSE <<>>)
    ELSE <<>>

\* if not requests: return []
empty_returns_never(reqs) == FALSE
empty_returns(reqs) == reqs = <<>>

\* ----------------------------------------------------------------- the inputs
\* scoring requests: the token lists 1 2 2 arise from two different requests,
\* which therefore have equal collation keys and different Results
ScoreContexts == {<<1>>, <<1, 2>>}
ScoreContinuations == {<<2>>, <<2, 2>>}
ScorePairs == ScoreContexts \X ScoreContinuations

\* the positions of a request list whose requests carry a cache key: none (as
\* loglikelihood_rolling calls), all (as loglikelihood calls), or every other
KeyPatterns(n) == {{}, 1..n, {i \in 1..n : i % 2 = 1}}

ScoreLists ==
    UNION {{[i \in 1..n |->
                [cache_key |-> IF i \in K THEN f[i] ELSE NoKey,
                 context_enc |-> f[i][1], continuation_enc |-> f[i][2]]] :
              f \in [1..n -> ScorePairs], K \in KeyPatterns(n)} : n \in 0..MaxReqs}

UntilContexts == {<<1, 2>>, <<2, 2, 1>>}
Untils == {<< <<1>> >>, << <<2>> >>}
UntilRequests ==
    {[context |-> x[1], request_args |-> [until |-> x[2]]] :
        x \in UntilContexts \X Untils}

\* the requests of loglikelihood: pairs of strings, either of which may be empty
LoglikContexts == {<<>>, <<1>>, <<1, 2>>}
LoglikContinuations == {<<>>, <<2>>}
LoglikLists ==
    UNION {[1..n -> LoglikContexts \X LoglikContinuations] : n \in 0..MaxLoglikReqs}

BatchSizes == {1, 2, 10}
\* max_length of the server's metadata
ServerMaxLengths == {258, 514}

UntilLists == UNION {[1..n -> UntilRequests] : n \in 0..MaxUntilReqs}

NoProbe == <<>>
NoResponse == [logprobs |-> <<>>, is_max_logprobs |-> <<>>, text |-> <<>>]
NoKwargs == [prompts |-> <<>>, max_tokens |-> 0, temperature |-> 0,
             logprobs |-> 0, stop_token |-> <<>>]

\* the locals of a call that has not started
Fresh ==
    /\ pc = "start"
    /\ re_ord = <<>>
    /\ chunk_list = <<>>
    /\ ci = 1
    /\ inps = <<>>
    /\ ctxlens = <<>>
    /\ kwargs = NoKwargs
    /\ attempts = <<>>
    /\ outcome = "none"
    /\ backoff_time = <<BackoffStart, 1>>
    /\ sleeps = <<>>
    /\ failures = 0
    /\ response = NoResponse
    /\ di = 1
    /\ res = <<>>
    /\ cache = <<>>
    /\ ret = <<>>
    /\ tokenized = <<>>

\* __init__ has run and an evaluation call is about to start
Init ==
    /\ \/ method = "loglikelihood_tokens" /\ requests \in ScoreLists
       \/ method = "greedy_until" /\ requests \in UntilLists
    /\ batch_size \in BatchSizes
    /\ \E m \in ServerMaxLengths : max_length = m - max_gen_toks
    /\ Fresh
    /\ probe = NoProbe

\* ------------------------------------------------------------------ the steps
\* the call up to its loop: the Reorderer and the list of chunks
Start ==
    /\ pc = "start"
    /\ IF method = "greedy_until" /\ empty_returns(requests)
       THEN /\ pc' = "returned"
            /\ ret' = <<>>
            /\ UNCHANGED <<re_ord, chunk_list, tokenized>>
       ELSE IF method = "greedy_until" /\ requests = <<>>
       THEN \* lastuntil = xs[0][1] of sameuntil_chunks: an IndexError
            /\ pc' = "raised"
            /\ UNCHANGED <<re_ord, chunk_list, tokenized, ret>>
       ELSE LET reqs == IF method = "loglikelihood"
                        THEN new_reqs(requests)
                        ELSE requests
                keys == [i \in 1..Len(reqs) |->
                            IF method = "greedy_until"
                            THEN collate_until(reqs[i])
                            ELSE collate_tokens(reqs[i])]
                order == Reorderer(keys)
                xs == get_reordered(reqs, order)
                plain == chunks(xs, batch_size)
            IN  /\ re_ord' = order
                /\ chunk_list' =
                      IF method = "greedy_until"
                      THEN sameuntil_chunks(xs, batch_size)
                      ELSE [k \in 1..Len(plain) |->
                               [items |-> plain[k], request_args |-> [until |-> <<>>]]]
                /\ tokenized' =
                      IF method = "loglikelihood"
                      THEN tokenized \o batch_prompts(requests)
                      ELSE IF method = "greedy_until"
                      THEN tokenized \o [i \in 1..Len(reqs) |-> <<reqs[i].context>>]
                      ELSE tokenized
                /\ pc' = "loop"
                /\ ret' = ret
    /\ UNCHANGED <<method, requests, batch_size, max_length, ci, inps, ctxlens,
                   kwargs, attempts, outcome, backoff_time, sleeps, failures,
                   response, di, res, cache, probe>>

\* a loop iteration up to the call of megatron_completion
BeginChunk ==
    /\ pc = "loop"
    /\ ci <= Len(chunk_list)
    /\ LET chunk == chunk_list[ci].items
           until == chunk_list[ci].request_args.until
           n == Len(chunk)
       IN  IF method = "greedy_until"
           THEN /\ inps' = [j \in 1..n |-> until_inp(chunk[j], max_length)]
                /\ ctxlens' = <<>>
                \* (primary_until,) = self.tok_encode(until[0])
                /\ IF until # <<>> /\ Len(tok_encode(until[1])) # 1
                   THEN /\ pc' = "raised"
                        /\ kwargs' = kwargs
                   ELSE /\ pc' = "query"
                        /\ kwargs' = [prompts |-> inps', max_tokens |-> max_gen_toks,
                                      temperature |-> 0, logprobs |-> 0,
                                      stop_token |-> IF until # <<>>
                                                     THEN tok_encode(until[1])
                                                     ELSE <<>>]
           ELSE /\ inps' = [j \in 1..n |-> item_inp(chunk[j], max_length)]
                /\ ctxlens' = [j \in 1..n |-> item_ctxlen(chunk[j], max_length)]
                /\ pc' = "query"
                /\ kwargs' = [prompts |-> inps', max_tokens |-> 0, temperature |-> 0,
                              logprobs |-> 10, stop_token |-> <<>>]
    /\ attempts' = <<>>
    /\ outcome' = "none"
    /\ backoff_time' = <<BackoffStart, 1>>
    /\ sleeps' = <<>>
    /\ failures' = 0
    /\ tokenized' = tokenized \o chunk_prompts(method, chunk_list[ci])
    /\ UNCHANGED <<method, requests, batch_size, max_length, re_ord, chunk_list,
                   ci, response, di, res, cache, ret, probe>>

\* megatron_query returns the server's answer, and megatron_completion returns it
QueryOk ==
    /\ pc = "query"
    /\ attempts' = Append(attempts, kwargs)
    /\ outcome' = "ok"
    /\ response' = SrvResponse(kwargs)
    /\ di' = 1
    /\ pc' = "decode"
    /\ UNCHANGED <<method, requests, batch_size, max_length, re_ord, chunk_list,
                   ci, inps, ctxlens, kwargs, backoff_time, sleeps, failures,
                   res, cache, ret, probe, tokenized>>

\* megatron_query raises
QueryFail ==
    /\ pc = "query"
    /\ failures < MaxFail
    /\ \E kind \in Failures :
          /\ outcome' = kind
          /\ pc' = IF caught(kind) THEN "except" ELSE "raised"
    /\ attempts' = Append(attempts, kwargs)
    /\ failures' = failures + 1
    /\ UNCHANGED <<method, requests, batch_size, max_length, re_ord, chunk_list,
                   ci, inps, ctxlens, kwargs, backoff_time, sleeps, response,
                   di, res, cache, ret, probe, tokenized>>

\* the except clause: the traceback, the sleep and the longer backoff
Sleep ==
    /\ pc = "except"
    /\ sleeps' = Append(sleeps, backoff_time)
    /\ backoff_time' = next_backoff(backoff_time)
    /\ pc' = "query"
    /\ UNCHANGED <<method, requests, batch_size, max_length, re_ord, chunk_list,
                   ci, inps, ctxlens, kwargs, attempts, outcome, failures,
                   response, di, res, cache, ret, probe, tokenized>>

\* the number of items the zip of the decode loop yields
ZipLen ==
    IF method = "greedy_until"
    THEN Min(Len(response.text), Len(chunk_list[ci].items))
    ELSE Min(Min(Len(response.logprobs), Len(response.is_max_logprobs)),
             Min(Len(ctxlens), Len(chunk_list[ci].items)))

\* one iteration of the decode loop: the Result, the partial cache, res
DecodeItem ==
    /\ pc = "decode"
    /\ di <= ZipLen
    /\ LET x == chunk_list[ci].items[di]
           until == chunk_list[ci].request_args.until
       IN  IF method = "greedy_until"
           THEN IF \E t \in 1..Len(until) : until[t] = <<>>
                THEN /\ pc' = "raised"
                     /\ UNCHANGED <<di, res, cache>>
                ELSE LET s == until_answer(response.text[di], x, until)
                     IN  /\ cache' = add_partial_until(cache, x, until, s)
                         /\ res' = res_append(res, s)
                         /\ di' = di + 1
                         /\ pc' = pc
           ELSE LET answer == get_result(response.logprobs[di],
                                         response.is_max_logprobs[di], ctxlens[di])
                IN  IF answer.raised
                    THEN /\ pc' = "raised"
                         /\ UNCHANGED <<di, res, cache>>
                    ELSE /\ res' = res_append(res, score_answer(answer))
                         /\ cache' = add_partial_tokens(cache, x, score_answer(answer))
                         /\ di' = di + 1
                         /\ pc' = pc
    /\ UNCHANGED <<method, requests, batch_size, max_length, re_ord, chunk_list,
                   ci, inps, ctxlens, kwargs, attempts, outcome, backoff_time,
                   sleeps, failures, response, ret, probe, tokenized>>

\* the decode loop ends and the chunk loop goes on
EndChunk_after_first ==
    /\ pc = "decode"
    /\ di > 1
    /\ ci' = ci + 1
    /\ pc' = "loop"
    /\ UNCHANGED <<method, requests, batch_size, max_length, re_ord, chunk_list,
                   inps, ctxlens, kwargs, attempts, outcome, backoff_time, sleeps,
                   failures, response, di, res, cache, ret, probe, tokenized>>
EndChunk ==
    /\ pc = "decode"
    /\ di > ZipLen
    /\ ci' = ci + 1
    /\ pc' = "loop"
    /\ UNCHANGED <<method, requests, batch_size, max_length, re_ord, chunk_list,
                   inps, ctxlens, kwargs, attempts, outcome, backoff_time, sleeps,
                   failures, response, di, res, cache, ret, probe, tokenized>>

\* return re_ord.get_original(res)
Return ==
    /\ pc = "loop"
    /\ ci > Len(chunk_list)
    /\ IF Len(res) = Len(re_ord)
       THEN /\ ret' = get_original(re_ord, res)
            /\ pc' = "returned"
       ELSE /\ ret' = ret
            /\ pc' = "raised"
    /\ UNCHANGED <<method, requests, batch_size, max_length, re_ord, chunk_list,
                   ci, inps, ctxlens, kwargs, attempts, outcome, backoff_time,
                   sleeps, failures, response, di, res, cache, probe, tokenized>>

Next ==
    \/ Start
    \/ BeginChunk
    \/ QueryOk
    \/ QueryFail
    \/ Sleep
    \/ DecodeItem
    \/ EndChunk
    \/ Return

Spec == Init /\ [][Next]_vars

\* ------------------------------------------------- sameuntil_chunks by itself
\* greedy_until up to its loop, on longer request lists
InitChunks ==
    /\ method = "greedy_until"
    /\ requests \in UNION {[1..n -> UntilRequests] : n \in 0..MaxRun}
    /\ batch_size \in BatchSizes
    /\ \E m \in ServerMaxLengths : max_length = m - max_gen_toks
    /\ Fresh
    /\ probe = NoProbe

ChunkSpec == InitChunks /\ [][Start]_vars

\* ------------------------------------------------------- truncation by itself
\* _loglikelihood_tokens up to its first megatron_completion call, on one
\* request with a longer context and continuation and a shorter window
TokenLists(max) == UNION {[1..n -> {1, 2}] : n \in 1..max}

InitTrunc ==
    /\ method = "loglikelihood_tokens"
    /\ \E c \in TokenLists(MaxCtx), t \in TokenLists(MaxCont) :
          requests = <<[cache_key |-> NoKey, context_enc |-> c, continuation_enc |-> t]>>
    /\ batch_size = 1
    /\ \E m \in {257, 258} : max_length = m - max_gen_toks
    /\ Fresh
    /\ probe = NoProbe

TruncSpec == InitTrunc /\ [][Start \/ BeginChunk]_vars

\* ------------------------------------------------------- get_result by itself
\* an entry of logprobs; the first one may be absent
LogprobValues == {0 - 2, 0 - 1, 0}

InitResult ==
    /\ method = "get_result"
    /\ requests = <<>>
    /\ batch_size = 1
    /\ max_length = 0
    /\ Fresh
    /\ \E n \in 1..MaxLogprobs :
          \E lp \in [1..n -> LogprobValues \cup {None}], im \in [1..n -> BOOLEAN],
             c \in (0 - 1)..n :
             /\ \A i \in 2..n : lp[i] # None
             /\ probe = [logprobs |-> lp, is_max_logprobs |-> im, ctxlen |-> c,
                         done |-> FALSE,
                         out |-> [raised |-> FALSE, logprob |-> 0, is_greedy |-> FALSE]]

ApplyGetResult ==
    /\ method = "get_result"
    /\ ~probe.done
    /\ probe' = [probe EXCEPT
                    !.done = TRUE,
                    !.out = get_result(probe.logprobs, probe.is_max_logprobs,
                                       probe.ctxlen)]
    /\ UNCHANGED <<method, requests, batch_size, max_length, pc, re_ord,
                   chunk_list, ci, inps, ctxlens, kwargs, attempts, outcome,
                   backoff_time, sleeps, failures, response, di, res, cache, ret,
                   tokenized>>

ResultSpec == InitResult /\ [][ApplyGetResult]_vars

\* --------------------------------------- the decoding of a generation by itself
\* the texts the server may return for a prompt: any text, which echoes the
\* context or does not
Texts == UNION {[1..n -> {1, 2}] : n \in 0..MaxText}
EchoContexts == {<<>>, <<1>>, <<2, 1>>}
\* the stop sequences; each is one token under tok_encode
StopTerms == {<<1>>, <<2>>, <<1, 2>>}
StopLists == UNION {[1..n -> StopTerms] : n \in 0..MaxTerms}

InitAnswer ==
    /\ method = "until_answer"
    /\ requests = <<>>
    /\ batch_size = 1
    /\ max_length = 0
    /\ Fresh
    /\ \E text \in Texts, context \in EchoContexts, until \in StopLists :
          probe = [text |-> text, context |-> context, until |-> until,
                   done |-> FALSE, out |-> <<>>]

\* lines 237 to 240 of greedy_until on one text of the response
ApplyUntilAnswer ==
    /\ method = "until_answer"
    /\ ~probe.done
    /\ probe' = [probe EXCEPT
                    !.done = TRUE,
                    !.out = until_answer(probe.text,
                                         [context |-> probe.context,
                                          request_args |-> [until |-> probe.until]],
                                         probe.until)]
    /\ UNCHANGED <<method, requests, batch_size, max_length, pc, re_ord,
                   chunk_list, ci, inps, ctxlens, kwargs, attempts, outcome,
                   backoff_time, sleeps, failures, response, di, res, cache, ret,
                   tokenized>>

AnswerSpec == InitAnswer /\ [][ApplyUntilAnswer]_vars

\* -------------------------------------------------------------- loglikelihood
\* __init__ has run and a loglikelihood call is about to start
InitLoglik ==
    /\ method = "loglikelihood"
    /\ requests \in LoglikLists
    /\ batch_size \in BatchSizes
    /\ \E m \in ServerMaxLengths : max_length = m - max_gen_toks
    /\ Fresh
    /\ probe = NoProbe

LoglikSpec == InitLoglik /\ [][Next]_vars

\* --------------------------------------------------- megatron_query by itself
\* the arguments of a megatron_query call
QueryArguments ==
    [prompts : {<< <<1>> >>, << <<1>>, <<3>> >>},
     max_tokens : {0, max_gen_toks},
     temperature : {0, 7, 10},
     logprobs : {0, 10},
     top_k : {<<>>, <<0>>, <<1>>, <<5>>},
     stop_token : {<<>>, <<2>>}]

InitQuery ==
    /\ method = "megatron_query"
    /\ requests = <<>>
    /\ batch_size = 1
    /\ max_length = 0
    /\ Fresh
    /\ \E kw \in QueryArguments :
          probe = [kw |-> kw, done |-> FALSE, data |-> [prompts |-> <<>>]]

\* megatron_query up to requests.put
ApplyQueryData ==
    /\ method = "megatron_query"
    /\ ~probe.done
    /\ probe' = [probe EXCEPT !.done = TRUE, !.data = megatron_query_data(probe.kw)]
    /\ UNCHANGED <<method, requests, batch_size, max_length, pc, re_ord,
                   chunk_list, ci, inps, ctxlens, kwargs, attempts, outcome,
                   backoff_time, sleeps, failures, response, di, res, cache, ret,
                   tokenized>>

QuerySpec == InitQuery /\ [][ApplyQueryData]_vars

\* ------------------------------------------------------------------ the claims
\* the Result the call computes for one request by itself
ResultOf(x) ==
    IF method = "greedy_until"
    THEN until_answer(SrvText(until_inp(x, max_length)), x, x.request_args.until)
    ELSE LET inp == item_inp(x, max_length)
         IN  score_answer(get_result(SrvLogprobs(inp), SrvIsMax(inp),
                                     item_ctxlen(x, max_length)))

CollateKey(x) ==
    IF method = "greedy_until" THEN collate_until(x) ELSE collate_tokens(x)

\* C1: the list returned by _loglikelihood_tokens and by greedy_until has the
\* length of the request list, and its i-th entry is the Result of the i-th
\* request, also when collation keys are equal.
C1_ResultsInRequestOrder ==
    pc = "returned" =>
        /\ Len(ret) = Len(requests)
        /\ \A i \in 1..Len(requests) : ret[i] = ResultOf(requests[i])

\* a scoring call of three requests has returned; two requests with equal
\* collation keys have different Results, and the dispatch order was not the
\* request order
C1_Witness ==
    /\ pc = "returned"
    /\ method = "loglikelihood_tokens"
    /\ Len(requests) = 3
    /\ re_ord # <<1, 2, 3>>
    /\ \E i, j \in 1..3 :
          /\ i < j
          /\ CollateKey(requests[i]) = CollateKey(requests[j])
          /\ ret[i] # ret[j]

RECURSIVE Pow(_, _)
Pow(b, e) == IF e = 0 THEN 1 ELSE b * Pow(b, e - 1)

\* the fraction f equals BackoffStart * (GrowthNum / GrowthDen) ^ e
IsBackoff(f, e) == f[1] * Pow(GrowthDen, e) = BackoffStart * Pow(GrowthNum, e) * f[2]

\* C5 as stated: when megatron_query fails N times and then succeeds,
\* megatron_completion makes N + 1 attempts and returns the successful
\* response, and the sleep before attempt k is 3 * 1.5^(k-1).  The attempts
\* are numbered 1 .. N + 1; the sleep before attempt k >= 2 is the (k-1)-th.
C5_SleepBeforeAttemptK ==
    /\ \A k \in 2..Len(attempts) : IsBackoff(sleeps[k - 1], k - 1)
    /\ outcome = "ok" =>
          /\ Len(attempts) = failures + 1
          /\ response = SrvResponse(kwargs)

\* C5, amended: when megatron_query fails N times and then succeeds,
\* megatron_completion makes N + 1 attempts and returns the successful
\* response, and it sleeps N times, after the k-th failed attempt (before
\* attempt k + 1) for 3 * 1.5^(k-1).
C5_AttemptsAndBackoff ==
    /\ \A k \in 1..Len(sleeps) : IsBackoff(sleeps[k], k - 1)
    /\ outcome = "ok" =>
          /\ Len(attempts) = failures + 1
          /\ Len(sleeps) = failures
          /\ response = SrvResponse(kwargs)

\* megatron_completion has returned after two failures and sleeps of 3 and 4.5
C5_Witness ==
    /\ outcome = "ok"
    /\ failures = 2
    /\ sleeps = <<<<3, 1>>, <<9, 2>>>>

\* the caller of megatron_completion runs on only with a successful response
C6_NoFailureValue ==
    pc = "decode" => outcome = "ok" /\ response = SrvResponse(kwargs)

\* no failure of megatron_query reaches the caller of megatron_completion
C6_NoFailureRaised ==
    pc = "raised" => outcome \notin {"status", "connection"}

\* every call of megatron_query has the arguments megatron_completion was given
C6_SameArguments == \A i \in 1..Len(attempts) : attempts[i] = kwargs

\* a failed call is followed by the sleep, the sleep by the next call
C6_SleepThenRetry ==
    /\ (outcome' \in {"status", "connection"} /\ attempts' # attempts) => pc' = "except"
    /\ (pc = "except" /\ pc' # pc) => (pc' = "query" /\ sleeps' = Append(sleeps, backoff_time))

\* C6: megatron_completion never returns a failure value and never raises a
\* failed call (a status other than 200, a connection error) to its caller:
\* after every failed call it sleeps and calls again with the same arguments,
\* and when megatron_query succeeds megatron_completion returns that response.
C6_RetryUntilSuccess ==
    /\ []C6_NoFailureValue
    /\ []C6_NoFailureRaised
    /\ []C6_SameArguments
    /\ [][C6_SleepThenRetry]_vars
    /\ (pc = "query") ~> (pc = "decode" /\ outcome = "ok")

\* megatron_completion has returned to greedy_until after a failed call
C6_Witness ==
    /\ method = "greedy_until"
    /\ pc = "decode"
    /\ failures >= 1
    /\ Len(attempts) = failures + 1

\* C7: a response of status 200 that is no dict is fatal: no further call is
\* made and the evaluation call raises.
C7_ShapeViolationIsFatal == outcome = "not_dict" => pc = "raised"

\* the requests in dispatch order
Dispatched == get_reordered(requests, re_ord)

\* the call of cache_hook.add_partial for item x, if it has a cache key
HookCalls(x) ==
    IF method = "greedy_until"
    THEN <<[attr |-> "greedy_until", key |-> <<x.context, x.request_args.until>>,
            value |-> ResultOf(x)]>>
    ELSE IF x.cache_key # NoKey
         THEN <<[attr |-> "loglikelihood", key |-> x.cache_key, value |-> ResultOf(x)]>>
         ELSE <<>>

RECURSIVE HookCallsUpTo(_)
HookCallsUpTo(k) ==
    IF k = 0 THEN <<>> ELSE HookCallsUpTo(k - 1) \o HookCalls(Dispatched[k])

\* C10: at every item boundary the calls of cache_hook.add_partial are, in
\* dispatch order, one call with the key and the Result of each decoded item
\* that has a cache key, and none for a scoring item without one.
C10_PartialCacheAfterEachItem ==
    /\ Len(res) <= Len(re_ord)
    /\ cache = HookCallsUpTo(Len(res))

\* in the middle of a chunk of a scoring call: two items are decoded, one of
\* them without a cache key, and a third is still to be decoded
C10_Witness ==
    /\ method = "loglikelihood_tokens"
    /\ pc = "decode"
    /\ di = 3
    /\ di <= ZipLen
    /\ Len(res) = 2
    /\ Len(cache) = 1

\* the case of C2 and C3: every entry is a number, and the input has a
\* context of ctxlen >= 1 tokens and a continuation of L >= 1 tokens
ProbeCase ==
    /\ method = "get_result"
    /\ probe.done
    /\ probe.ctxlen >= 1
    /\ probe.ctxlen < Len(probe.logprobs)
    /\ \A i \in 1..Len(probe.logprobs) : probe.logprobs[i] # None

\* the 0-based continuation positions of the probed input
ProbeContinuation == probe.ctxlen .. (Len(probe.logprobs) - 1)

\* C2: with one log-probability per input token, the log-likelihood is the sum
\* of exactly the last L entries, L the number of continuation tokens: L
\* entries are summed and none of them is at a context position.
C2_SumOfContinuationSuffix ==
    ProbeCase =>
        LET n == Len(probe.logprobs)
            L == n - probe.ctxlen
            summed == continuation_logprob_indices(probe.logprobs, probe.ctxlen)
        IN  /\ ~probe.out.raised
            /\ probe.out.logprob = SumSeq(SubSeq(probe.logprobs, n - L + 1, n))
            /\ Cardinality(summed) = L
            /\ summed \subseteq ProbeContinuation

\* C3: is_greedy is true iff every entry of is_max_logprobs at a continuation
\* position is true, and the continuation positions are the positions whose
\* log-probabilities are summed.
C3_GreedyOverContinuation ==
    ProbeCase =>
        /\ ~probe.out.raised
        /\ probe.out.is_greedy =
              (\A i \in ProbeContinuation : probe.is_max_logprobs[i + 1])
        /\ is_greedy_indices(probe.is_max_logprobs, probe.ctxlen) = ProbeContinuation
        /\ continuation_logprob_indices(probe.logprobs, probe.ctxlen) = ProbeContinuation

\* C4: when C + L > window + 1, the dispatched input is the rightmost
\* window + 1 - L context tokens followed by all L continuation tokens, and
\* the context length handed to get_result is window + 1 - L.
C4_OnlyContextIsCut ==
    (/\ method = "loglikelihood_tokens"
     /\ pc = "query"
     /\ Len(requests) = 1
     /\ Len(requests[1].context_enc) + Len(requests[1].continuation_enc)
           > max_length + 1) =>
        LET c == requests[1].context_enc
            t == requests[1].continuation_enc
            kept == max_length + 1 - Len(t)
        IN  /\ kept >= 0
            /\ ctxlens[1] = kept
            /\ inps[1] = SubSeq(c, Len(c) - kept + 1, Len(c)) \o t

\* the attributes of the dispatch order and the cut positions of the chunks
RECURSIVE Flatten(_)
Flatten(cs) == IF cs = <<>> THEN <<>> ELSE Head(cs).items \o Flatten(Tail(cs))

RECURSIVE CutPositions(_)
CutPositions(cs) ==
    IF cs = <<>> THEN {}
    ELSE CutPositions(SubSeq(cs, 1, Len(cs) - 1)) \cup {Len(Flatten(cs))}

Chunked == method = "greedy_until" /\ pc = "loop"

AttrA == [until |-> << <<1>> >>]
AttrB == [until |-> << <<2>> >>]

\* C8: every group of sameuntil_chunks holds only items with the attribute
\* yielded with it, and a group ends wherever the attribute differs between
\* adjacent items; the attributes A, A, B, A with batch size 10 give the
\* groups [A, A], [B], [A].
C8_GroupsShareStopCondition ==
    Chunked =>
        /\ \A k \in 1..Len(chunk_list) :
              \A j \in 1..Len(chunk_list[k].items) :
                 chunk_list[k].items[j].request_args = chunk_list[k].request_args
        /\ \A i \in 1..(Len(Dispatched) - 1) :
              Dispatched[i].request_args # Dispatched[i + 1].request_args
                 => i \in CutPositions(chunk_list)
        /\ (/\ batch_size = 10
            /\ [i \in 1..Len(Dispatched) |-> Dispatched[i].request_args]
                  = <<AttrA, AttrA, AttrB, AttrA>>)
              => [k \in 1..Len(chunk_list) |-> Len(chunk_list[k].items)] = <<2, 1, 1>>

\* the attributes A, A, B, A with batch size 10, in the groups [A, A], [B], [A]
C8_Witness ==
    /\ Chunked
    /\ batch_size = 10
    /\ [i \in 1..Len(Dispatched) |-> Dispatched[i].request_args]
          = <<AttrA, AttrA, AttrB, AttrA>>
    /\ [k \in 1..Len(chunk_list) |-> chunk_list[k].request_args]
          = <<AttrA, AttrB, AttrA>>

\* C9: the groups of sameuntil_chunks are non-empty, hold at most batch_size
\* items and, concatenated in order, are the reordered sequence; so a run of
\* more than batch_size items with one attribute is split.
C9_GroupsPartitionTheSequence ==
    Chunked =>
        /\ \A k \in 1..Len(chunk_list) :
              /\ chunk_list[k].items # <<>>
              /\ Len(chunk_list[k].items) <= batch_size
        /\ Flatten(chunk_list) = Dispatched
        /\ \A i \in 1..(Len(Dispatched) - batch_size) :
              \E p \in CutPositions(chunk_list) : i <= p /\ p < i + batch_size

\* three items with one attribute and batch size 2: groups of 2 and 1 items
\* with that attribute
C9_Witness ==
    /\ Chunked
    /\ batch_size = 2
    /\ Len(Dispatched) = 3
    /\ \A i \in 1..3 : Dispatched[i].request_args = AttrA
    /\ [k \in 1..Len(chunk_list) |-> Len(chunk_list[k].items)] = <<2, 1>>
    /\ \A k \in 1..2 : chunk_list[k].request_args = AttrA

\* ---- C11
\* the positions of s at which the stop sequence term occurs, from 0
Occurrences(s, term) ==
    {p \in 0..(Len(s) - Len(term)) : SubSeq(s, p + 1, p + Len(term)) = term}

\* s cut at the earliest position at which any stop sequence of until occurs
EarliestCut(s, until) ==
    LET ps == UNION {Occurrences(s, until[t]) : t \in 1..Len(until)}
    IN  IF ps = {} THEN s
        ELSE SubSeq(s, 1, CHOOSE p \in ps : \A q \in ps : p <= q)

AnswerCase == method = "until_answer" /\ probe.done

\* C11: the Result of a generation is the returned text without the echoed
\* context, cut at the earliest position at which any of the stop sequences
\* occurs in it, and the text whole when none occurs; the listing order of the
\* stop sequences does not change it
C11_CutAtEarliestStop ==
    AnswerCase =>
        /\ probe.out = EarliestCut(RemovePrefix(probe.text, probe.context), probe.until)
        /\ probe.out = cut_at_terms(RemovePrefix(probe.text, probe.context),
                                    Reverse(probe.until))

\* ---- C12
HasEmptyContinuation ==
    /\ method = "loglikelihood"
    /\ \E i \in 1..Len(requests) : tok_encode(requests[i][2]) = <<>>

\* C12: a loglikelihood call given a request whose continuation tokenizes to no
\* tokens sends no completion request, produces no Result and does not return
C12_EmptyContinuationIsFatal ==
    HasEmptyContinuation =>
        /\ attempts = <<>>
        /\ res = <<>>
        /\ pc # "returned"

\* ---- C13
QueryCase == method = "megatron_query" /\ probe.done

\* C13: the body of a query with temperature 0 has top_k = 1, whatever top_k
\* the caller gave; the body of a query with another temperature carries that
\* temperature, and carries top_k exactly when the caller gave one, with the
\* caller's value
C13_TemperatureAndTopK ==
    QueryCase =>
        LET kw == probe.kw
            data == probe.data
        IN  /\ kw.temperature = 0 =>
                  /\ "top_k" \in DOMAIN data
                  /\ data.top_k = 1
            /\ kw.temperature # 0 =>
                  /\ "temperature" \in DOMAIN data
                  /\ data.temperature = kw.temperature
                  /\ "top_k" \in DOMAIN data <=> kw.top_k # <<>>
                  /\ kw.top_k # <<>> => data.top_k = kw.top_k[1]

\* a query with temperature 0 whose caller asked for top_k = 5
C13_Witness ==
    /\ QueryCase
    /\ probe.kw.temperature = 0
    /\ probe.kw.top_k = <<5>>
    /\ probe.data.top_k = 1

\* ---- C14
\* the number of items of the chunks before chunk k
ItemsBefore(k) == Len(Flatten(SubSeq(chunk_list, 1, k - 1)))

\* C14: while the completion call of a chunk is being attempted, every item of
\* every earlier chunk, and no other item, has been decoded and written to the
\* partial cache, in dispatch order; and the call returns only when every item
\* of every chunk has been decoded and cached
C14_SequentialDispatch ==
    /\ pc \in {"query", "except", "decode"} => ci \in 1..Len(chunk_list)
    /\ pc \in {"query", "except"} =>
          /\ Len(res) = ItemsBefore(ci)
          /\ cache = HookCallsUpTo(ItemsBefore(ci))
    /\ pc = "returned" =>
          /\ Len(res) = Len(requests)
          /\ Len(res) = ItemsBefore(Len(chunk_list) + 1)
          /\ cache = HookCallsUpTo(Len(requests))

\* the first attempt for the second chunk is about to start, after the two
\* items of the first chunk were decoded and cached
C14_Witness ==
    /\ method = "greedy_until"
    /\ pc = "query"
    /\ ci = 2
    /\ attempts = <<>>
    /\ Len(chunk_list[1].items) = 2
    /\ Len(res) = 2
    /\ Len(cache) = 2

\* ---- C15
\* what loglikelihood is to hand on for request i
ExpectedNewReq(i) ==
    LET context_enc == tok_encode(requests[i][1])
    IN  [cache_key |-> requests[i],
         context_enc |-> IF context_enc = <<>> THEN <<eot_token_id>> ELSE context_enc,
         continuation_enc |-> tok_encode(requests[i][2])]

\* C15: loglikelihood dispatches every request with its own cache key, its
\* continuation tokens and its context tokens, except that an empty tokenized
\* context is replaced by the single token eot_token_id
C15_EmptyContextBecomesEot ==
    method = "loglikelihood" /\ pc # "start" =>
        /\ Flatten(chunk_list) =
              get_reordered([i \in 1..Len(requests) |-> ExpectedNewReq(i)], re_ord)
        /\ pc = "query" =>
              \A j \in 1..Len(inps) :
                 LET x == chunk_list[ci].items[j]
                 IN  /\ x \in {ExpectedNewReq(i) : i \in 1..Len(requests)}
                     /\ inps[j] = x.context_enc \o x.continuation_enc
                     /\ ctxlens[j] = Len(x.context_enc)

\* one completion call for a request with an empty context and one with the
\* context 1
C15_Witness ==
    /\ method = "loglikelihood"
    /\ pc = "query"
    /\ \E j \in 1..Len(inps) : inps[j] = <<eot_token_id, 2>> /\ ctxlens[j] = 1
    /\ \E j \in 1..Len(inps) : inps[j] = <<1, 2>>
    /\ \E i \in 1..Len(requests) : requests[i] = <<<<>>, <<2>>>>

\* ---- C16
\* C16 as stated: a call with an empty request list returns the empty list and
\* has sent no request to the remote endpoint, neither a completion request nor
\* any other, and has written nothing to the partial cache
C16_NoRequestAtAll ==
    requests = <<>> =>
        /\ attempts = <<>>
        /\ tokenized = <<>>
        /\ cache = <<>>
        /\ pc \in {"start", "loop", "returned"}
        /\ pc = "returned" => ret = <<>>

\* C16, amended: a call with an empty request list returns the empty list, and
\* it has sent no completion request and written nothing to the partial cache;
\* greedy_until and _loglikelihood_tokens send nothing at all, and loglikelihood
\* sends its two tokenizer requests, each with an empty list of prompts
C16_EmptyListNoDispatch ==
    requests = <<>> =>
        /\ attempts = <<>>
        /\ cache = <<>>
        /\ pc \in {"start", "loop", "returned"}
        /\ pc = "returned" => ret = <<>>
        /\ method # "loglikelihood" => tokenized = <<>>
        /\ method = "loglikelihood" /\ pc # "start" => tokenized = << <<>>, <<>> >>

\* loglikelihood([]) has returned
C16_Witness ==
    /\ method = "loglikelihood"
    /\ requests = <<>>
    /\ pc = "returned"
    /\ ret = <<>>
    /\ tokenized = << <<>>, <<>> >>

\* ---- C17
\* C17: every scoring item with a non-empty context and a non-empty
\* continuation is dispatched with 1 <= ctxlen, with
\* ctxlen + len(continuation_enc) = len(inp) and with an input of at most
\* max_length + 1 tokens, so that the slice index ctxlen - 1 is not negative
C17_CtxlenAtLeastOne ==
    method = "loglikelihood_tokens" /\ pc = "query" =>
        \A j \in 1..Len(inps) :
           LET x == chunk_list[ci].items[j]
           IN  x.context_enc # <<>> /\ x.continuation_enc # <<>> =>
                  /\ 1 <= ctxlens[j]
                  /\ ctxlens[j] + Len(x.continuation_enc) = Len(inps[j])
                  /\ Len(inps[j]) <= max_length + 1

\* ---- C18
\* the rightmost cap tokens of toks, and toks whole when it has no more
Rightmost(toks, cap) ==
    IF Len(toks) <= cap THEN toks ELSE SubSeq(toks, Len(toks) - cap + 1, Len(toks))

\* C18: with a server max_length of at least 512, every prompt of greedy_until
\* is the rightmost part of the tokenized context, capped at the usable context
\* length derived at construction, the server's max_length minus 256: a context
\* of at most that many tokens is sent whole, a longer one is cut from the left
\* to exactly that many tokens
C18_PromptCappedAtUsableLength ==
    (/\ method = "greedy_until"
     /\ pc = "query"
     /\ max_length + max_gen_toks >= 2 * max_gen_toks) =>
        \A j \in 1..Len(inps) :
           inps[j] = Rightmost(tok_encode(chunk_list[ci].items[j].context), max_length)

\* the evaluation calls of short request lists
InitLive == Init /\ Len(requests) <= MaxLiveReqs

\* megatron_completion takes its next step, and megatron_query succeeds in the end
LiveSpec == InitLive /\ [][Next]_vars /\ WF_vars(Sleep) /\ SF_vars(QueryOk)

\* the three entry points: loglikelihood, _loglikelihood_tokens, greedy_until
InitEntry == InitLoglik \/ InitLive

EntrySpec == InitEntry /\ [][Next]_vars

====
